---------------------------- MODULE Spec2Model ----------------------------
(***************************************************************************)
(* Model of tpu/tpu_manager: tpu_automate_training.py (the orchestrator,   *)
(* main) and tpu_manager.py (the helper library it calls).                 *)
(*                                                                         *)
(* Python strings are sequences of one-character strings, so that split,   *)
(* strip, join, startswith and int() are computed as Python computes them. *)
(* Python integers are unbounded: a parsed core count is kept as its       *)
(* sequence of decimal digits (most significant first, no leading zeros,   *)
(* zero is the empty sequence).                                            *)
(***************************************************************************)
EXTENDS Integers, Sequences, FiniteSets, TLC

VARIABLES
    environ,      \* os.environ: a function from the set variables to strings
    uid,          \* the token uuid.uuid4() returned at import
    CORE_RATIO,   \* the module constant CORE_RATIO
    pc,           \* the position of the running code
    calls,        \* the external calls issued so far, in order
    stages,       \* start/end marks of the stages of main, in order
    localFiles,   \* local file system: file path -> content
    localDirs,    \* local file system: the directory paths
    buckets,      \* storage service: the names of the existing containers
    objects,      \* storage service: the job's container, object key -> content
    iam,          \* storage service: the container's IAM policy, role -> members
    addresses,    \* compute service: reserved ranges, name -> reservation
    nodes,        \* tpu service: nodes, name -> description
    bucket,       \* main's local: the Bucket object (its name)
    cidr,         \* main's local: the reservation reserve_cidr returned
    tpu_node,     \* main's local: the node description create_tpus returned
    size,         \* the prefix length main computed for reserve_cidr
    request,      \* the body of the last insert/create request sent
    status,       \* the last polled operation status
    polls,        \* the polls of the current loop that found the operation running
    policy,       \* tpu_bucket_access's local: the policy it read
    logged,       \* the exceptions passed to logging.exception
    raised        \* the exception that left the running code, with its context chain

config == <<environ, uid, CORE_RATIO>>

fs == <<localFiles, localDirs>>

storage == <<buckets, objects, iam>>

cloud == <<addresses, nodes>>

locals == <<bucket, cidr, tpu_node, size, request, status, polls, policy>>

vars == <<config, pc, calls, stages, fs, storage, cloud, locals, logged, raised>>

\* Python's None, and every empty dict, list and string
Null == <<>>

-----------------------------------------------------------------------------
(* Bounds of the model.                                                    *)

\* the polls of one loop that may find the operation still running
MaxPolls == 2
\* core counts 2^k, 2^k - 1 and 3 * 2^k are drawn for k up to this exponent
MaxCoreExp == 35
\* the ratios CORE_RATIO is drawn from in the sizing specification
MaxRatio == 4

-----------------------------------------------------------------------------
(* Python strings.                                                         *)

DigitChars == <<"0", "1", "2", "3", "4", "5", "6", "7", "8", "9">>

IsDigitChar(c) == \E i \in 1..10 : DigitChars[i] = c

DigitVal(c) == (CHOOSE i \in 1..10 : DigitChars[i] = c) - 1

\* s.startswith(p)
StartsWith(s, p) == Len(p) <= Len(s) /\ SubSeq(s, 1, Len(p)) = p

\* s.endswith(p)
EndsWith(s, p) ==
    Len(p) <= Len(s) /\ SubSeq(s, Len(s) - Len(p) + 1, Len(s)) = p

\* the positions of s whose character is not in chars
Kept(s, chars) == {i \in 1..Len(s) : s[i] \notin chars}

\* the least and the greatest member of a non-empty set of positions
MinOf(S) == CHOOSE i \in S : \A j \in S : i <= j
MaxOf(S) == CHOOSE i \in S : \A j \in S : j <= i

\* s.lstrip(chars)
LStrip(s, chars) ==
    IF Kept(s, chars) = {} THEN <<>> ELSE SubSeq(s, MinOf(Kept(s, chars)), Len(s))

\* s.rstrip(chars)
RStrip(s, chars) ==
    IF Kept(s, chars) = {} THEN <<>> ELSE SubSeq(s, 1, MaxOf(Kept(s, chars)))

\* s.strip(chars): drops the leading and the trailing characters in chars
Strip(s, chars) == RStrip(LStrip(s, chars), chars)

\* the positions of the separator sep in s
SepsOf(s, sep) == {i \in 1..Len(s) : s[i] = sep}

\* the position of the k-th separator; 0 before the first, Len(s) + 1 after
\* the last
SepAt(s, sep, k) ==
    IF k = 0 THEN 0
    ELSE IF k > Cardinality(SepsOf(s, sep)) THEN Len(s) + 1
    ELSE CHOOSE i \in SepsOf(s, sep) :
            Cardinality({j \in SepsOf(s, sep) : j < i}) = k - 1

\* s.split(sep) for a one-character separator: the list of the parts
Split(s, sep) ==
    [k \in 1..(Cardinality(SepsOf(s, sep)) + 1) |->
        SubSeq(s, SepAt(s, sep, k - 1) + 1, SepAt(s, sep, k) - 1)]

\* os.path.join(a, b)
PathJoin(a, b) ==
    IF b # <<>> /\ Head(b) = "/" THEN b
    ELSE IF a = <<>> \/ a[Len(a)] = "/" THEN a \o b
    ELSE a \o <<"/">> \o b

\* os.path.splitext(p)[0] for a path whose last component has a suffix
SplitExtRoot(p) ==
    IF SepsOf(p, ".") = {} THEN <<>>
    ELSE SubSeq(p, 1, MaxOf(SepsOf(p, ".")) - 1)

-----------------------------------------------------------------------------
(* Python integers, unbounded.                                             *)

\* the digits without leading zeros
Norm(d) == LStrip(d, {0})

\* int(s) succeeds on a non-empty string of decimal digits
IntParses(s) == s # <<>> /\ \A i \in 1..Len(s) : IsDigitChar(s[i])

\* int(s)
ParseInt(s) == Norm([i \in 1..Len(s) |-> DigitVal(s[i])])

\* long division from the digit st[1] on, with the remainder st[2] carried
\* and the quotient digits st[3] so far
RECURSIVE DivFrom(_, _, _)
DivFrom(d, r, st) ==
    IF st[1] > Len(d) THEN Norm(st[3])
    ELSE DivFrom(d, r, <<st[1] + 1, (st[2] * 10 + d[st[1]]) % r,
                         Append(st[3], (st[2] * 10 + d[st[1]]) \div r)>>)

\* d // r for a small positive r
FloorDiv(d, r) == DivFrom(d, r, <<1, 0, <<>>>>)

\* a < b
BigLess(a, b) ==
    \/ Len(a) < Len(b)
    \/ /\ Len(a) = Len(b)
       /\ \E i \in 1..Len(a) :
            /\ a[i] < b[i]
            /\ \A j \in 1..(i - 1) : a[j] = b[j]

\* max(a, b)
BigMax(a, b) == IF BigLess(a, b) THEN b ELSE a

\* n.bit_length() for n in 1..15
SmallBitLength(n) == IF n >= 8 THEN 4 ELSE IF n >= 4 THEN 3 ELSE IF n >= 2 THEN 2 ELSE 1

\* d.bit_length(), four bits at a time
RECURSIVE BitLength(_)
BitLength(d) ==
    IF d = <<>> THEN 0
    ELSE IF Len(d) = 1 THEN SmallBitLength(d[1])
    ELSE IF Len(d) = 2 /\ d[1] * 10 + d[2] < 16 THEN SmallBitLength(d[1] * 10 + d[2])
    ELSE 4 + BitLength(FloorDiv(d, 16))


-----------------------------------------------------------------------------
(* tpu_automate_training.py: the module-level configuration.               *)

\* os.environ.get(key, default)
EnvGet(key, default) ==
    IF key \in DOMAIN environ THEN environ[key] ELSE default

UpperChars == <<"A", "B", "C", "D", "E", "F", "G", "H", "I", "J", "K", "L", "M",
                "N", "O", "P", "Q", "R", "S", "T", "U", "V", "W", "X", "Y", "Z">>

LowerChars == <<"a", "b", "c", "d", "e", "f", "g", "h", "i", "j", "k", "l", "m",
                "n", "o", "p", "q", "r", "s", "t", "u", "v", "w", "x", "y", "z">>

\* s.lower()
Lower(s) ==
    [i \in 1..Len(s) |->
        IF \E k \in 1..26 : UpperChars[k] = s[i]
        THEN LowerChars[CHOOSE k \in 1..26 : UpperChars[k] = s[i]]
        ELSE s[i]]

StrToBoolTrue == {<<"y">>, <<"y", "e", "s">>, <<"t">>, <<"t", "r", "u", "e">>,
                  <<"o", "n">>, <<"1">>}

StrToBoolFalse == {<<"n">>, <<"n", "o">>, <<"f">>, <<"f", "a", "l", "s", "e">>,
                   <<"o", "f", "f">>, <<"0">>}

\* distutils.util.strtobool(val) raises ValueError on any other word
StrToBoolRaises(val) == Lower(val) \notin (StrToBoolTrue \cup StrToBoolFalse)

\* distutils.util.strtobool(val): 1 or 0
strtobool(val) == IF Lower(val) \in StrToBoolTrue THEN 1 ELSE 0

\* The names below are not taken apart by the code: a name is a sequence
\* of pieces, and str.format concatenates the pieces.
PROJECT == EnvGet("GCLOUD_PROJECT", <<"my-project">>)

NETWORK == EnvGet("NETWORK", <<"default">>)

ZONE == EnvGet("ZONE", <<"us-central1-c">>)

TPU_TYPE == EnvGet("TPU_TYPE", <<"v", "2", "-", "8">>)

FRAMEWORK == EnvGet("FRAMEWORK", <<"1.14">>)

JOB_ID == EnvGet("JOB_ID", PROJECT \o <<"-tpu-">> \o uid)

PREEMPTIBLE_TPU ==
    strtobool(EnvGet("PREEMPTIBLE_TPU", <<"F", "a", "l", "s", "e">>))

RESERVED_TPU == strtobool(EnvGet("RESERVED_TPU", <<"F", "a", "l", "s", "e">>))

\* the default is the four-character string 'None', not the value None
TPU_ADDRESS == EnvGet("TPU_ADDRESS", <<"N", "o", "n", "e">>)

STORAGE_LOCATION == EnvGet("STORAGE_LOCATION", <<"us-central1">>)

PREPROCESS == strtobool(EnvGet("PREPROCESS", <<"T", "r", "u", "e">>))

DATA_DIR == EnvGet("DATA_DIR", <<"d", "a", "t", "a", "/">>)

OUTPUT_DIR == EnvGet("OUTPUT_DIR", <<"o", "u", "t", "p", "u", "t", "/">>)

DefaultCoreRatio == 4

\* the three strtobool calls of the module body; a ValueError ends the import
ImportRaises ==
    \/ StrToBoolRaises(EnvGet("PREEMPTIBLE_TPU", <<"F", "a", "l", "s", "e">>))
    \/ StrToBoolRaises(EnvGet("RESERVED_TPU", <<"F", "a", "l", "s", "e">>))
    \/ StrToBoolRaises(EnvGet("PREPROCESS", <<"T", "r", "u", "e">>))

-----------------------------------------------------------------------------
(* main, lines 172-179: the size argument of reserve_cidr.                 *)

\* TPU_TYPE.split('-')[1] raises IndexError, or int() raises ValueError
SizeArgRaises ==
    LET parts == Split(TPU_TYPE, "-")
    IN  IF Len(parts) < 2 THEN TRUE ELSE ~IntParses(parts[2])

\* int(TPU_TYPE.split('-')[1])
Cores == ParseInt(Split(TPU_TYPE, "-")[2])

\* the size as the comment of line 55 reads, the floor taken before the division
AddressSizerFloorFirst(cores, ratio) ==
    33 - BitLength(FloorDiv(BigMax(<<8>>, cores), ratio))

\* the size without the floor of 8
AddressSizerNoFloor(cores, ratio) == 33 - BitLength(FloorDiv(cores, ratio))

\* 33 - bit_length(max(8, cores // ratio))
AddressSizer(cores, ratio) ==
    33 - BitLength(BigMax(<<8>>, FloorDiv(cores, ratio)))

\* 33-(max(8, int(TPU_TYPE.split('-')[1])//CORE_RATIO).bit_length())
SizeArg == AddressSizer(Cores, CORE_RATIO)

-----------------------------------------------------------------------------
(* Records of what the code did, and exceptions.                           *)

\* one external call: the API method and its arguments
Call(api, arg) == [api |-> api, arg |-> arg]

\* the log of calls after call c; the turns of a poll loop repeat one
\* request, which is recorded once
Logged(c) ==
    IF calls # <<>> /\ calls[Len(calls)] = c THEN calls ELSE Append(calls, c)

\* An exception is the sequence of its message followed by the messages of
\* its __context__ chain; the empty sequence is "no exception".
\* `raise Exception(msg)` inside an except block keeps the handled
\* exception as the context of the new one.
Wrap(msg, handled) == <<msg>> \o handled

\* what a failing call of a client library raises
RemoteErrors == {<<"HttpError">>}

\* update of a dict: d[k] = v
Put(d, k, v) == [x \in (DOMAIN d) \cup {k} |-> IF x = k THEN v ELSE d[x]]

\* a dict without the keys in ks
Without(d, ks) == [x \in (DOMAIN d) \ ks |-> d[x]]

-----------------------------------------------------------------------------
(* The local file system.                                                  *)

LastSlash(p) ==
    LET I == {i \in 1..Len(p) : p[i] = "/"}
    IN  IF I = {} THEN 0 ELSE CHOOSE i \in I : \A j \in I : j <= i

\* the directory part of a path
DirName(p) == IF LastSlash(p) = 0 THEN <<>> ELSE SubSeq(p, 1, LastSlash(p) - 1)

\* the last component of a path
BaseName(p) == SubSeq(p, LastSlash(p) + 1, Len(p))

\* the directory that './' + DATA_DIR names, relative to the working directory
TopDir == RStrip(DATA_DIR, {"/"})

\* the argument './{path}'.format(path=DATA_DIR)
TopArg == <<".", "/">> \o DATA_DIR

\* the files os.walk(top) reaches: those in the directory and below it
WalkFiles(files) ==
    {p \in DOMAIN files : TopDir = <<>> \/ StartsWith(p, TopDir \o <<"/">>)}

\* the `root` os.walk(top) yields for the directory of file p: top itself,
\* or top joined with the path from top down to the directory
WalkRoot(p) ==
    LET d == DirName(p)
    IN  IF d = TopDir THEN TopArg
        ELSE IF TopDir = <<>> THEN PathJoin(TopArg, d)
        ELSE PathJoin(TopArg, SubSeq(d, Len(TopDir) + 2, Len(d)))

GzSuffix == <<".", "g", "z">>

\* the content of a well-formed gzip file holding c
Gz(c) == <<"gzip">> \o c

IsGz(c) == c # <<>> /\ Head(c) = "gzip"

-----------------------------------------------------------------------------
(* The inputs of a run: the environment variables, the local data.         *)

EnvTpuType ==
    {Null, "TPU_TYPE" :> <<"v", "3", "-", "3", "2">>, "TPU_TYPE" :> <<"v", "2">>}

EnvAddress ==
    {Null, "TPU_ADDRESS" :> <<>>, "TPU_ADDRESS" :> <<"10.1.0.0">>}

EnvPreprocess ==
    {Null, "PREPROCESS" :> <<"F", "a", "l", "s", "e">>,
     "PREPROCESS" :> <<"m", "a", "y", "b", "e">>}

EnvDataDir ==
    {Null, "DATA_DIR" :> <<"d", "a", "t", "a">>, "DATA_DIR" :> <<>>}

EnvOutputDir ==
    {Null, "OUTPUT_DIR" :> <<"d", "a", "t", "a", "/", "o", "u", "t", "/">>}

EnvJobId == {Null, "JOB_ID" :> <<"job-7">>}

\* the environments of a run: the defaults, each variable set alone, and
\* every pair of data and output directories
Environs ==
    {d @@ o : d \in EnvDataDir, o \in EnvOutputDir}
    \cup EnvTpuType \cup EnvAddress \cup EnvPreprocess \cup EnvJobId

Uuids == {<<"uuid-1">>}

\* the prepared training data in ./data
InitialFiles ==
    (<<"d", "a", "t", "a", "/", "a">> :> <<"A">>)
    @@ (<<"d", "a", "t", "a", "/", "s", "/", "b", ".", "g", "z">> :> Gz(<<"B">>))

InitialDirs == {<<"d", "a", "t", "a">>, <<"d", "a", "t", "a", "/", "s">>}

Idle ==
    /\ calls = <<>> /\ stages = <<>>
    /\ buckets = {} /\ objects = Null /\ iam = Null
    /\ addresses = Null /\ nodes = Null
    /\ bucket = Null /\ cidr = Null /\ tpu_node = Null /\ size = 0
    /\ request = Null /\ status = Null /\ polls = 0 /\ policy = Null
    /\ logged = <<>> /\ raised = <<>>

Init ==
    /\ environ \in Environs
    /\ uid \in Uuids
    /\ CORE_RATIO = DefaultCoreRatio
    /\ pc = "import"
    /\ localFiles = InitialFiles /\ localDirs = InitialDirs
    /\ Idle

-----------------------------------------------------------------------------
(* tpu_automate_training.py: import, then main.                            *)

Start(stage) == Append(stages, <<stage, "start">>)

End(stage) == Append(stages, <<stage, "end">>)

\* a variant of Abort: the exception is recorded and the stage is tried again
AbortAndContinue(exc) == raised' = exc /\ UNCHANGED pc

\* an exception leaves main: the run is over
Abort(exc) == pc' = "aborted" /\ raised' = exc

\* lines 37-60: the module body evaluates the configuration
Import ==
    /\ pc = "import" /\ ~ImportRaises
    /\ pc' = "main"
    /\ UNCHANGED <<config, calls, stages, fs, storage, cloud, locals, logged, raised>>

ImportFails ==
    /\ pc = "import" /\ ImportRaises
    /\ pc' = "crashed" /\ raised' = <<"ValueError">>
    /\ UNCHANGED <<config, calls, stages, fs, storage, cloud, locals, logged>>

\* what ./convert_to_records.py leaves in the data directory
ScriptWrites ==
    LET out == PathJoin(TopDir, <<"t", ".", "g", "z">>)
    IN  {out :> Gz(<<"T">>), out :> <<"junk">>}

\* the files of lines 92-94: file.endswith(".gz")
GzFiles(files) == {p \in WalkFiles(files) : EndsWith(BaseName(p), GzSuffix)}

\* lines 95-104 done for the files in S: p_out written, p_in removed
Extracted(files, S) ==
    LET outs == {SplitExtRoot(p) : p \in S}
        kept == (DOMAIN files) \ S
    IN  [q \in kept \cup outs |->
            IF q \in outs
            THEN Tail(files[CHOOSE p \in S : SplitExtRoot(p) = q])
            ELSE files[q]]

\* a variant of PreprocessSkipped: the toggle is not consulted
PreprocessAlwaysSkipped ==
    /\ pc = "main"
    /\ pc' = "build_clients"
    /\ UNCHANGED <<config, calls, stages, fs, storage, cloud, locals, logged, raised>>

PreprocessSkipped ==
    /\ pc = "main" /\ PREPROCESS = 0
    /\ pc' = "build_clients"
    /\ UNCHANGED <<config, calls, stages, fs, storage, cloud, locals, logged, raised>>

\* preprocess_mnist returns
Preprocess ==
    /\ pc = "main" /\ PREPROCESS # 0
    /\ \E out \in ScriptWrites :
        LET files == out @@ localFiles
        IN  /\ \A p \in GzFiles(files) : IsGz(files[p])
            /\ localFiles' = Extracted(files, GzFiles(files))
    /\ calls' = Append(calls, Call("execute", <<"convert_to_records.py", TopArg>>))
    /\ stages' = Start("preprocess") \o <<<<"preprocess", "end">>>>
    /\ pc' = "build_clients"
    /\ UNCHANGED <<config, localDirs, storage, cloud, locals, logged, raised>>

\* execute raises CalledProcessError: the script returned an error status
PreprocessScriptFails ==
    /\ pc = "main" /\ PREPROCESS # 0
    /\ calls' = Append(calls, Call("execute", <<"convert_to_records.py", TopArg>>))
    /\ stages' = Start("preprocess")
    /\ Abort(Wrap("Preprocessing failed. Aborting training.",
                  <<"CalledProcessError">>))
    /\ UNCHANGED <<config, fs, storage, cloud, locals, logged>>

\* gzip cannot read file f: p_out was created and is empty, p_in is kept;
\* the files in S were extracted before f was reached
PreprocessExtractFails ==
    /\ pc = "main" /\ PREPROCESS # 0
    /\ \E out \in ScriptWrites :
        LET files == out @@ localFiles
            bad   == {p \in GzFiles(files) : ~IsGz(files[p])}
        IN  \E f \in bad : \E S \in SUBSET (GzFiles(files) \ bad) :
                localFiles' = Put(Extracted(files, S), SplitExtRoot(f), <<>>)
    /\ calls' = Append(calls, Call("execute", <<"convert_to_records.py", TopArg>>))
    /\ stages' = Start("preprocess")
    /\ Abort(Wrap("Preprocessing failed. Aborting training.", <<"BadGzipFile">>))
    /\ UNCHANGED <<config, localDirs, storage, cloud, locals, logged>>

\* lines 148-151: googleapiclient.discovery.build, twice
BuildClients ==
    /\ pc = "build_clients"
    /\ calls' = calls \o <<Call("discovery.build", <<"tpu", "v1">>),
                          Call("discovery.build", <<"compute", "v1">>)>>
    /\ pc' = "create_bucket"
    /\ UNCHANGED <<config, stages, fs, storage, cloud, locals, logged, raised>>

\* a build call raises: no handler, the error leaves main as it is
BuildClientsFails ==
    /\ pc = "build_clients"
    /\ \E n \in 1..2 : \E e \in RemoteErrors :
        /\ calls' = calls \o SubSeq(<<Call("discovery.build", <<"tpu", "v1">>),
                                      Call("discovery.build", <<"compute", "v1">>)>>,
                                    1, n)
        /\ Abort(e)
    /\ UNCHANGED <<config, stages, fs, storage, cloud, locals, logged>>

-----------------------------------------------------------------------------
(* tpu_manager.create_bucket and upload_dir, called at lines 155-167.      *)

\* the policy of a new container
NewBucketPolicy == ("roles/storage.legacyBucketOwner" :> {<<"projectOwner:">> \o PROJECT})

\* a variant of CreateBucketCall: the container is named after the project
CreateBucketCallProjectName ==
    Call("client.create_bucket",
         [name |-> PROJECT, location |-> STORAGE_LOCATION,
          storage_class |-> <<"REGIONAL">>])

CreateBucketCall ==
    Call("client.create_bucket",
         [name |-> JOB_ID, location |-> STORAGE_LOCATION,
          storage_class |-> <<"REGIONAL">>])

CreateBucket ==
    /\ pc = "create_bucket" /\ JOB_ID \notin buckets
    /\ calls' = Append(calls, CreateBucketCall)
    /\ stages' = Start("create_bucket") \o <<<<"create_bucket", "end">>>>
    /\ buckets' = buckets \cup {JOB_ID}
    /\ objects' = Null /\ iam' = NewBucketPolicy
    /\ bucket' = JOB_ID
    /\ pc' = "upload_dir"
    /\ UNCHANGED <<config, fs, cloud, cidr, tpu_node, size, request, status, polls,
                   policy, logged, raised>>

CreateBucketFails ==
    /\ pc = "create_bucket"
    /\ calls' = Append(calls, CreateBucketCall)
    /\ stages' = Start("create_bucket")
    /\ \E e \in RemoteErrors :
        Abort(Wrap("Could not create the bucket for this training job.", e))
    /\ UNCHANGED <<config, fs, storage, cloud, locals, logged>>

\* line 98: os.path.join(folder, root.strip('./'), file), with folder=''
UploadKey(p) ==
    PathJoin(PathJoin(<<>>, Strip(WalkRoot(p), {".", "/"})), BaseName(p))

\* the container after blob.upload_from_filename for the files in S
Uploaded(objs, S) ==
    LET keys == {UploadKey(p) : p \in S}
    IN  [k \in (DOMAIN objs) \cup keys |->
            IF k \in keys
            THEN localFiles[CHOOSE p \in S : UploadKey(p) = k]
            ELSE objs[k]]

UploadCall(S) ==
    Call("blob.upload_from_filename", {<<p, UploadKey(p)>> : p \in S})

UploadDir ==
    /\ pc = "upload_dir"
    /\ calls' = Append(calls, UploadCall(WalkFiles(localFiles)))
    /\ stages' = Start("upload_dir") \o <<<<"upload_dir", "end">>>>
    /\ objects' = Uploaded(objects, WalkFiles(localFiles))
    /\ pc' = "reserve_cidr"
    /\ UNCHANGED <<config, fs, buckets, iam, cloud, locals, logged, raised>>

\* the upload of file f fails; the files in S were uploaded before it and stay
UploadDirFails ==
    /\ pc = "upload_dir"
    /\ \E f \in WalkFiles(localFiles) : \E S \in SUBSET (WalkFiles(localFiles) \ {f}) :
        /\ calls' = Append(calls, UploadCall(S \cup {f}))
        /\ objects' = Uploaded(objects, S)
    /\ stages' = Start("upload_dir")
    /\ \E e \in RemoteErrors :
        Abort(Wrap("Could not upload training data to the bucket.", e))
    /\ UNCHANGED <<config, fs, buckets, iam, cloud, locals, logged>>

-----------------------------------------------------------------------------
(* tpu_manager.reserve_cidr, called at lines 172-181.                      *)

\* lines 141-154: the request body; `if address:` holds for a non-empty string
CidrConfig(network, name, prefix, address) ==
    LET base == [network |-> <<"/global/networks/">> \o network,
                 name |-> name,
                 purpose |-> "VPC_PEERING",
                 addressType |-> "INTERNAL",
                 prefixLength |-> prefix]
    IN  IF address # <<>> THEN Put(base, "address", address) ELSE base

\* the ranges the provider may pick when the request names no address
FreeRanges == {<<"10.240.0.0">>, <<"10.240.0.8">>}

ErrorPayloads == {<<"QUOTA_EXCEEDED">>, <<"IP_IN_USE">>}

\* what compute.globalOperations().get may return
ComputeStatuses ==
    {[status |-> st] : st \in {"PENDING", "RUNNING", "DONE"}}
    \cup {[status |-> st, error |-> e] :
            st \in {"PENDING", "RUNNING", "DONE"}, e \in ErrorPayloads}

\* a variant of ReserveRaises: the error field of a DONE status is not looked at
ReserveRaisesUnlessDone(st) == "error" \in DOMAIN st /\ st.status # "DONE"

\* line 169: if 'error' in status
ReserveRaises(st) == "error" \in DOMAIN st

\* line 171: if status['status'] == 'DONE'
ReserveDone(st) == st.status = "DONE"

ReserveWrap(e) == Wrap("Could not reserve a CIDR for this TPU node.", e)

\* line 178 raises before reserve_cidr is entered
ReserveArgFails ==
    /\ pc = "reserve_cidr" /\ SizeArgRaises
    /\ stages' = Start("reserve_cidr")
    /\ Abort(ReserveWrap(<<"ValueError or IndexError">>))
    /\ UNCHANGED <<config, calls, fs, storage, cloud, locals, logged>>

\* lines 141-161: the request is built and submitted
ReserveSubmit ==
    /\ pc = "reserve_cidr" /\ ~SizeArgRaises
    /\ size' = SizeArg
    /\ request' = CidrConfig(NETWORK, JOB_ID, SizeArg, TPU_ADDRESS)
    /\ calls' = Append(calls, Call("globalAddresses.insert", request'))
    /\ stages' = Start("reserve_cidr")
    /\ polls' = 0 /\ status' = Null
    /\ pc' = "reserve_poll"
    /\ UNCHANGED <<config, fs, storage, cloud, bucket, cidr, tpu_node, policy,
                   logged, raised>>

ReserveSubmitFails ==
    /\ pc = "reserve_cidr" /\ ~SizeArgRaises
    /\ size' = SizeArg
    /\ request' = CidrConfig(NETWORK, JOB_ID, SizeArg, TPU_ADDRESS)
    /\ calls' = Append(calls, Call("globalAddresses.insert", request'))
    /\ stages' = Start("reserve_cidr")
    /\ \E e \in RemoteErrors : Abort(ReserveWrap(e))
    /\ UNCHANGED <<config, fs, storage, cloud, bucket, cidr, tpu_node, status, polls,
                   policy, logged>>

\* the range the provider reserves for the request
Reservations(req) ==
    IF "address" \in DOMAIN req
    THEN {[address |-> req.address, prefixLength |-> req.prefixLength]}
    ELSE {[address |-> a, prefixLength |-> req.prefixLength] : a \in FreeRanges}

\* lines 163-172: one turn of the loop; the operation may complete, and the
\* range then exists, when the status is DONE without an error
ReservePoll ==
    /\ pc = "reserve_poll"
    /\ calls' = Logged(Call("globalOperations.get", JOB_ID))
    /\ \E st \in ComputeStatuses :
        /\ status' = st
        /\ IF st.status = "DONE" /\ "error" \notin DOMAIN st
           THEN \E r \in Reservations(request) : addresses' = Put(addresses, JOB_ID, r)
           ELSE UNCHANGED addresses
        /\ IF ReserveRaises(st)
           THEN /\ Abort(ReserveWrap(st.error))
                /\ UNCHANGED polls
           ELSE IF ReserveDone(st)
           THEN pc' = "reserve_get" /\ UNCHANGED <<raised, polls>>
           ELSE /\ polls < MaxPolls
                /\ polls' = polls + 1
                /\ UNCHANGED <<pc, raised>>
    /\ UNCHANGED <<config, stages, fs, storage, nodes, bucket, cidr, tpu_node, size,
                   request, policy, logged>>

\* the status request itself raises
ReservePollFails ==
    /\ pc = "reserve_poll"
    /\ calls' = Logged(Call("globalOperations.get", JOB_ID))
    /\ \E e \in RemoteErrors : Abort(ReserveWrap(e))
    /\ UNCHANGED <<config, stages, fs, storage, cloud, locals, logged>>

\* lines 175-179: the reserved range is fetched and returned
ReserveGet ==
    /\ pc = "reserve_get" /\ JOB_ID \in DOMAIN addresses
    /\ calls' = Append(calls, Call("globalAddresses.get", JOB_ID))
    /\ cidr' = addresses[JOB_ID]
    /\ stages' = End("reserve_cidr")
    /\ request' = Null /\ status' = Null /\ polls' = 0
    /\ pc' = "create_tpus"
    /\ UNCHANGED <<config, fs, storage, cloud, bucket, tpu_node, size, policy,
                   logged, raised>>

ReserveGetFails ==
    /\ pc = "reserve_get"
    /\ calls' = Append(calls, Call("globalAddresses.get", JOB_ID))
    /\ \E e \in RemoteErrors : Abort(ReserveWrap(e))
    /\ UNCHANGED <<config, stages, fs, storage, cloud, locals, logged>>

-----------------------------------------------------------------------------
(* tpu_manager.create_tpus, called at lines 184-187.                       *)

\* lines 209-218: the request body
\* a variant of tpu_config whose cidrBlock leaves the prefix length out
TpuConfigAddressOnly(tpu_type, tf_version, network, range, preemptible, reserved) ==
    [acceleratorType |-> tpu_type,
     tensorflowVersion |-> tf_version,
     network |-> network,
     cidrBlock |-> range.address,
     schedulingConfig |-> [preemptible |-> preemptible, reserved |-> reserved]]

TpuConfig(tpu_type, tf_version, network, range, preemptible, reserved) ==
    [acceleratorType |-> tpu_type,
     tensorflowVersion |-> tf_version,
     network |-> network,
     cidrBlock |-> range.address \o <<"/", range.prefixLength>>,
     schedulingConfig |-> [preemptible |-> preemptible, reserved |-> reserved]]

\* the identities the provider may give a node
ServiceAccounts == {<<"sa-1@tpu">>, <<"sa-2@tpu">>}

\* what tpu.projects().locations().operations().get may return
TpuStatuses ==
    {[done |-> d] : d \in BOOLEAN}
    \cup {[done |-> TRUE, error |-> e] : e \in ErrorPayloads}

\* the loop left only by an operation that is done and carries no error
CreateLoopExitsOnCleanDone(st) == st.done /\ "error" \notin DOMAIN st

\* lines 230-231: `while not (...['done'])` is left
CreateLoopExits(st) == st.done

\* the node the provider runs for a creation request
NodesFor(name, req) ==
    {[name |-> name, acceleratorType |-> req.acceleratorType,
      cidrBlock |-> req.cidrBlock, serviceAccount |-> sa] : sa \in ServiceAccounts}

CreateTpusSubmit ==
    /\ pc = "create_tpus"
    /\ request' = TpuConfig(TPU_TYPE, FRAMEWORK, NETWORK, cidr,
                            PREEMPTIBLE_TPU, RESERVED_TPU)
    /\ calls' = Append(calls, Call("nodes.create", [nodeId |-> JOB_ID, body |-> request']))
    /\ stages' = Start("create_tpus")
    /\ polls' = 0 /\ status' = Null
    /\ pc' = "create_poll"
    /\ UNCHANGED <<config, fs, storage, cloud, bucket, cidr, tpu_node, size, policy,
                   logged, raised>>

\* lines 227-228: the rejected request is re-raised with a message
CreateTpusSubmitFails ==
    /\ pc = "create_tpus"
    /\ request' = TpuConfig(TPU_TYPE, FRAMEWORK, NETWORK, cidr,
                            PREEMPTIBLE_TPU, RESERVED_TPU)
    /\ calls' = Append(calls, Call("nodes.create", [nodeId |-> JOB_ID, body |-> request']))
    /\ stages' = Start("create_tpus")
    /\ \E e \in RemoteErrors : Abort(Wrap("Could not create a new TPU device.", e))
    /\ UNCHANGED <<config, fs, storage, cloud, bucket, cidr, tpu_node, size, status,
                   polls, policy, logged>>

\* lines 230-233: one turn of the loop. A completed operation that carries
\* no error has created the node; one that carries an error may or may not
\* have left a node behind.
CreateTpusPoll ==
    /\ pc = "create_poll"
    /\ calls' = Logged(Call("operations.get", <<"create">> \o JOB_ID))
    /\ \E st \in TpuStatuses :
        /\ status' = st
        /\ \/ /\ st.done
              /\ \E n \in NodesFor(JOB_ID, request) : nodes' = Put(nodes, JOB_ID, n)
           \/ /\ ~st.done \/ "error" \in DOMAIN st
              /\ UNCHANGED nodes
        /\ IF CreateLoopExits(st)
           THEN pc' = "create_get" /\ UNCHANGED polls
           ELSE polls < MaxPolls /\ polls' = polls + 1 /\ UNCHANGED pc
    /\ UNCHANGED <<config, stages, fs, storage, addresses, bucket, cidr, tpu_node,
                   size, request, policy, logged, raised>>

CreateTpusPollFails ==
    /\ pc = "create_poll"
    /\ calls' = Logged(Call("operations.get", <<"create">> \o JOB_ID))
    /\ \E e \in RemoteErrors : Abort(e)
    /\ UNCHANGED <<config, stages, fs, storage, cloud, locals, logged>>

\* lines 235-240: the node description is fetched and returned
CreateTpusGet ==
    /\ pc = "create_get" /\ JOB_ID \in DOMAIN nodes
    /\ calls' = Append(calls, Call("nodes.get", JOB_ID))
    /\ tpu_node' = nodes[JOB_ID]
    /\ stages' = End("create_tpus")
    /\ request' = Null /\ status' = Null /\ polls' = 0
    /\ pc' = "tpu_bucket_access"
    /\ UNCHANGED <<config, fs, storage, cloud, bucket, cidr, size, policy, logged,
                   raised>>

\* the fetch raises: always when there is no such node
CreateTpusGetFails ==
    /\ pc = "create_get"
    /\ calls' = Append(calls, Call("nodes.get", JOB_ID))
    /\ \E e \in RemoteErrors : Abort(e)
    /\ UNCHANGED <<config, stages, fs, storage, cloud, locals, logged>>

-----------------------------------------------------------------------------
(* tpu_manager.tpu_bucket_access, called at lines 190-193.                 *)

GrantedRole == "roles/storage.objectAdmin"

\* line 83: policy[role].add('serviceAccount:{sa_email}')
AddBinding(pol, role, sa_email) ==
    LET member == <<"serviceAccount:">> \o sa_email
    IN  Put(pol, role,
            (IF role \in DOMAIN pol THEN pol[role] ELSE {}) \cup {member})

\* line 82: the policy is read
GetIamPolicy ==
    /\ pc = "tpu_bucket_access"
    /\ calls' = Append(calls, Call("bucket.get_iam_policy", bucket))
    /\ stages' = Start("tpu_bucket_access")
    /\ policy' = iam
    /\ pc' = "set_iam_policy"
    /\ UNCHANGED <<config, fs, storage, cloud, bucket, cidr, tpu_node, size, request,
                   status, polls, logged, raised>>

GetIamPolicyFails ==
    /\ pc = "tpu_bucket_access"
    /\ calls' = Append(calls, Call("bucket.get_iam_policy", bucket))
    /\ stages' = Start("tpu_bucket_access")
    /\ \E e \in RemoteErrors : Abort(e)
    /\ UNCHANGED <<config, fs, storage, cloud, locals, logged>>

\* a variant of SetIamPolicy: the binding is added to the policy the
\* container has at the time of the write
SetIamPolicyOnCurrent ==
    /\ pc = "set_iam_policy"
    /\ LET written == AddBinding(iam, GrantedRole, tpu_node.serviceAccount)
       IN  /\ calls' = Append(calls, Call("bucket.set_iam_policy", written))
           /\ iam' = written
    /\ policy' = Null
    /\ stages' = End("tpu_bucket_access")
    /\ pc' = "train_mnist"
    /\ UNCHANGED <<config, fs, buckets, objects, cloud, bucket, cidr, tpu_node, size,
                   request, status, polls, logged, raised>>

\* lines 83-84: the binding is added to the policy read and the policy written
SetIamPolicy ==
    /\ pc = "set_iam_policy"
    /\ LET written == AddBinding(policy, GrantedRole, tpu_node.serviceAccount)
       IN  /\ calls' = Append(calls, Call("bucket.set_iam_policy", written))
           /\ iam' = written
    /\ policy' = Null
    /\ stages' = End("tpu_bucket_access")
    /\ pc' = "train_mnist"
    /\ UNCHANGED <<config, fs, buckets, objects, cloud, bucket, cidr, tpu_node, size,
                   request, status, polls, logged, raised>>

SetIamPolicyFails ==
    /\ pc = "set_iam_policy"
    /\ policy' = AddBinding(policy, GrantedRole, tpu_node.serviceAccount)
    /\ calls' = Append(calls, Call("bucket.set_iam_policy", policy'))
    /\ \E e \in RemoteErrors : Abort(e)
    /\ UNCHANGED <<config, stages, fs, storage, cloud, bucket, cidr, tpu_node, size,
                   request, status, polls, logged>>

-----------------------------------------------------------------------------
(* train_mnist, called at lines 198-201.                                   *)

TrainCall ==
    Call("execute",
         [script |-> <<"mnist_tpu.py">>, tpu |-> JOB_ID,
          data_dir |-> <<"gs://">> \o JOB_ID \o <<"/">> \o DATA_DIR,
          model_dir |-> <<"gs://">> \o JOB_ID \o <<"/">> \o OUTPUT_DIR])

\* what the training script may leave under model_dir: nothing, a model
\* file, or a model file and a folder with a checkpoint in it
JobWrites ==
    {Null,
     (OUTPUT_DIR \o <<"m">>) :> <<"M">>,
     ((OUTPUT_DIR \o <<"m">>) :> <<"M">>)
       @@ ((OUTPUT_DIR \o <<"e", "/">>) :> <<>>)
       @@ ((OUTPUT_DIR \o <<"e", "/", "k">>) :> <<"K">>)}

\* a variant of JobFailure: the exception is kept as the outcome of the run
\* while the teardown goes on
JobFailureKept(e) ==
    /\ raised' = e
    /\ pc' = "delete_tpus"
    /\ UNCHANGED logged

\* a variant of JobFailure: the exception is raised again, as in the other stages
JobFailureReraised(e) == Abort(e) /\ UNCHANGED logged

\* lines 200-201: `except Exception as e: logging.exception(e)`
JobFailure(e) ==
    /\ logged' = Append(logged, e)
    /\ pc' = "delete_tpus"
    /\ UNCHANGED raised

Train ==
    /\ pc = "train_mnist"
    /\ calls' = Append(calls, TrainCall)
    /\ stages' = Start("train_mnist") \o <<<<"train_mnist", "end">>>>
    /\ \E out \in JobWrites : objects' = out @@ objects
    /\ pc' = "delete_tpus"
    /\ UNCHANGED <<config, fs, buckets, iam, cloud, locals, logged, raised>>

\* execute raises CalledProcessError (raise_errors=True): the script failed
TrainFails ==
    /\ pc = "train_mnist"
    /\ calls' = Append(calls, TrainCall)
    /\ stages' = Start("train_mnist") \o <<<<"train_mnist", "failed">>>>
    /\ \E out \in JobWrites : objects' = out @@ objects
    /\ JobFailure(<<"CalledProcessError">>)
    /\ UNCHANGED <<config, fs, buckets, iam, cloud, locals>>

-----------------------------------------------------------------------------
(* tpu_manager.delete_tpus and release_cidr, called at lines 207-208.      *)

\* a variant of DeleteLoopExits: delete_tpus returns after the first status
DeleteLoopExitsAtOnce(st) == TRUE

\* lines 253-254: `while not (...['done'])` is left
DeleteLoopExits(st) == st.done

\* the release is not waited for
ReleaseLoopExitsAtOnce(st) == TRUE

\* lines 190-192: `while (...['status'] != 'DONE')` is left
ReleaseLoopExits(st) == st.status = "DONE"

DeleteTpusSubmit ==
    /\ pc = "delete_tpus"
    /\ calls' = Append(calls, Call("nodes.delete", JOB_ID))
    /\ stages' = Start("delete_tpus")
    /\ polls' = 0 /\ status' = Null
    /\ pc' = "delete_poll"
    /\ UNCHANGED <<config, fs, storage, cloud, bucket, cidr, tpu_node, size, request,
                   policy, logged, raised>>

DeleteTpusSubmitFails ==
    /\ pc = "delete_tpus"
    /\ calls' = Append(calls, Call("nodes.delete", JOB_ID))
    /\ stages' = Start("delete_tpus")
    /\ \E e \in RemoteErrors : Abort(e)
    /\ UNCHANGED <<config, fs, storage, cloud, locals, logged>>

\* one turn of the loop; the node is gone when the operation completed
\* without an error
DeleteTpusPoll ==
    /\ pc = "delete_poll"
    /\ calls' = Logged(Call("operations.get", <<"delete">> \o JOB_ID))
    /\ \E st \in TpuStatuses :
        /\ status' = st
        /\ nodes' = IF st.done /\ "error" \notin DOMAIN st
                    THEN Without(nodes, {JOB_ID}) ELSE nodes
        /\ IF DeleteLoopExits(st)
           THEN /\ pc' = "release_cidr"
                /\ stages' = End("delete_tpus")
                /\ UNCHANGED polls
           ELSE /\ polls < MaxPolls
                /\ polls' = polls + 1
                /\ UNCHANGED <<pc, stages>>
    /\ UNCHANGED <<config, fs, storage, addresses, bucket, cidr, tpu_node, size,
                   request, policy, logged, raised>>

DeleteTpusPollFails ==
    /\ pc = "delete_poll"
    /\ calls' = Logged(Call("operations.get", <<"delete">> \o JOB_ID))
    /\ \E e \in RemoteErrors : Abort(e)
    /\ UNCHANGED <<config, stages, fs, storage, cloud, locals, logged>>

\* a variant of ReleaseSubmit: main goes on without releasing the range
ReleaseSubmitSkipped ==
    /\ pc = "release_cidr"
    /\ stages' = Start("release_cidr") \o <<<<"release_cidr", "end">>>>
    /\ polls' = 0 /\ status' = Null
    /\ pc' = "download_blobs"
    /\ UNCHANGED <<config, calls, fs, storage, cloud, bucket, cidr, tpu_node, size,
                   request, policy, logged, raised>>

ReleaseSubmit ==
    /\ pc = "release_cidr"
    /\ calls' = Append(calls, Call("globalAddresses.delete", JOB_ID))
    /\ stages' = Start("release_cidr")
    /\ polls' = 0 /\ status' = Null
    /\ pc' = "release_poll"
    /\ UNCHANGED <<config, fs, storage, cloud, bucket, cidr, tpu_node, size, request,
                   policy, logged, raised>>

ReleaseSubmitFails ==
    /\ pc = "release_cidr"
    /\ calls' = Append(calls, Call("globalAddresses.delete", JOB_ID))
    /\ stages' = Start("release_cidr")
    /\ \E e \in RemoteErrors : Abort(e)
    /\ UNCHANGED <<config, fs, storage, cloud, locals, logged>>

\* one turn of the loop; the range is released when the operation is DONE
\* without an error
ReleasePoll ==
    /\ pc = "release_poll"
    /\ calls' = Logged(Call("globalOperations.get", JOB_ID))
    /\ \E st \in ComputeStatuses :
        /\ status' = st
        /\ addresses' = IF st.status = "DONE" /\ "error" \notin DOMAIN st
                        THEN Without(addresses, {JOB_ID}) ELSE addresses
        /\ IF ReleaseLoopExits(st)
           THEN /\ pc' = "download_blobs"
                /\ stages' = End("release_cidr")
                /\ UNCHANGED polls
           ELSE /\ polls < MaxPolls
                /\ polls' = polls + 1
                /\ UNCHANGED <<pc, stages>>
    /\ UNCHANGED <<config, fs, storage, nodes, bucket, cidr, tpu_node, size, request,
                   policy, logged, raised>>

ReleasePollFails ==
    /\ pc = "release_poll"
    /\ calls' = Logged(Call("globalOperations.get", JOB_ID))
    /\ \E e \in RemoteErrors : Abort(e)
    /\ UNCHANGED <<config, stages, fs, storage, cloud, locals, logged>>

-----------------------------------------------------------------------------
(* tpu_manager.download_blobs and delete_blobs.                            *)

\* the characters of object keys, in code point order
AsciiOrder ==
    <<"-", ".", "/", "0", "1", "2", "3", "4", "5", "6", "7", "8", "9">>
    \o UpperChars \o <<"_">> \o LowerChars

CharCode(c) == CHOOSE i \in 1..Len(AsciiOrder) : AsciiOrder[i] = c

\* a < b for strings
LexLess(a, b) ==
    \E i \in 1..(Len(a) + 1) :
        /\ i <= Len(b)
        /\ SubSeq(a, 1, i - 1) = SubSeq(b, 1, i - 1)
        /\ (i = Len(a) + 1 \/ CharCode(a[i]) < CharCode(b[i]))

\* the keys of S in ascending order: the i-th has i - 1 keys before it
SortKeys(S) ==
    [i \in 1..Cardinality(S) |->
        CHOOSE x \in S : Cardinality({y \in S : LexLess(y, x)}) = i - 1]

\* client.list_blobs(bucket_name, prefix=prefix): the keys that start with
\* prefix, in the order of their names
ListBlobs(objs, prefix) == SortKeys({k \in DOMAIN objs : StartsWith(k, prefix)})

\* the guard of line 64 left out
DeleteBlobsNeverRaises(prefix, delete_all) == FALSE

\* line 64: if prefix == '' and delete_all == False
DeleteBlobsRaises(prefix, delete_all) == prefix = <<>> /\ delete_all = FALSE

\* lines 73-74: blob.delete() for the first n listed blobs
DeleteBlobsResult(objs, prefix, n) ==
    LET listed == ListBlobs(objs, prefix)
    IN  Without(objs, {listed[i] : i \in 1..n})

\* filepath.rsplit('/', 1).pop(0)
RSplitHead(p) == IF LastSlash(p) = 0 THEN p ELSE SubSeq(p, 1, LastSlash(p) - 1)

\* the directory d and the directories above it
Ancestors(d) ==
    ({SubSeq(d, 1, i - 1) : i \in {j \in 1..Len(d) : d[j] = "/"}} \cup {d}) \ {<<>>}

\* os.makedirs(d) without exist_ok: an existing directory raises as well
MakeDirsRaisesIfExists(st, d) ==
    d = <<>> \/ d \in st.dirs \/ \E a \in Ancestors(d) : a \in DOMAIN st.files

\* os.makedirs(d, exist_ok=True) raises: a file is in the way, or d is ''
MakeDirsRaises(st, d) == d = <<>> \/ \E a \in Ancestors(d) : a \in DOMAIN st.files

\* lines 116-130 for one blob. net = "ok": the download succeeds;
\* "partial", "removed": it fails and leaves a truncated file, or none.
DownloadOne(st, local_dir, name, content, net) ==
    LET filepath == PathJoin(local_dir, name)
        parent   == RSplitHead(filepath)
        made     == [st EXCEPT !.dirs = st.dirs \cup Ancestors(parent)]
    IN  IF MakeDirsRaises(st, parent)
        THEN [st EXCEPT !.exc = <<"FileExistsError">>]
        ELSE IF EndsWith(name, <<"/">>) THEN made
        ELSE IF filepath \in made.dirs
        THEN [made EXCEPT !.exc =
                Wrap("Cannot download the contents of bucket", <<"IsADirectoryError">>)]
        ELSE IF net = "partial"
        THEN [made EXCEPT !.files = Put(made.files, filepath, <<>>),
                          !.exc = <<"HttpError">>]
        ELSE IF net = "removed"
        THEN [made EXCEPT !.files = Without(made.files, {filepath}),
                          !.exc = <<"HttpError">>]
        ELSE [made EXCEPT !.files = Put(made.files, filepath, content)]

\* lines 115-130: the loop over the listed blobs, from the i-th on; the
\* download of blob number failAt (if any) fails the way `net` says
RECURSIVE DownloadFrom(_, _, _, _, _, _, _)
DownloadFrom(st, objs, listed, local_dir, i, failAt, net) ==
    IF i > Len(listed) \/ st.exc # <<>> THEN st
    ELSE DownloadFrom(
            DownloadOne(st, local_dir, listed[i], objs[listed[i]],
                        IF i = failAt THEN net ELSE "ok"),
            objs, listed, local_dir, i + 1, failAt, net)

\* download_blobs(storage, bucket_name, prefix, local_dir) on the local
\* files and directories: the files, the directories and the exception after
DownloadBlobsResult(files, dirs, objs, prefix, local_dir, failAt, net) ==
    DownloadFrom([files |-> files, dirs |-> dirs, exc |-> <<>>],
                 objs, ListBlobs(objs, prefix), local_dir, 1, failAt, net)

NetOutcomes == {"partial", "removed"}

\* line 214: 'results-{id}'.format(id=JOB_ID)
ResultsDir == <<"results-">> \o JOB_ID

DownloadCall == Call("download_blobs", [prefix |-> OUTPUT_DIR, local_dir |-> ResultsDir])

\* lines 213-214: download_blobs returns
DownloadBlobs ==
    /\ pc = "download_blobs"
    /\ LET r == DownloadBlobsResult(localFiles, localDirs, objects, OUTPUT_DIR,
                                    ResultsDir, 0, "ok")
       IN  /\ r.exc = <<>>
           /\ localFiles' = r.files /\ localDirs' = r.dirs
    /\ calls' = Append(calls, DownloadCall)
    /\ stages' = Start("download_blobs") \o <<<<"download_blobs", "end">>>>
    /\ status' = Null /\ polls' = 0
    /\ pc' = "delete_blobs"
    /\ UNCHANGED <<config, storage, cloud, bucket, cidr, tpu_node, size, request,
                   policy, logged, raised>>

\* download_blobs raises: a name conflict, or a failed download
DownloadBlobsFails ==
    /\ pc = "download_blobs"
    /\ \E failAt \in 0..Len(ListBlobs(objects, OUTPUT_DIR)) : \E net \in NetOutcomes :
        LET r == DownloadBlobsResult(localFiles, localDirs, objects, OUTPUT_DIR,
                                     ResultsDir, failAt, net)
        IN  /\ r.exc # <<>>
            /\ localFiles' = r.files /\ localDirs' = r.dirs
            /\ Abort(r.exc)
    /\ calls' = Append(calls, DownloadCall)
    /\ stages' = Start("download_blobs")
    /\ status' = Null /\ polls' = 0
    /\ UNCHANGED <<config, storage, cloud, bucket, cidr, tpu_node, size, request,
                   policy, logged>>

\* the listing request of download_blobs raises
DownloadListFails ==
    /\ pc = "download_blobs"
    /\ calls' = Append(calls, DownloadCall)
    /\ stages' = Start("download_blobs")
    /\ status' = Null /\ polls' = 0
    /\ \E e \in RemoteErrors : Abort(e)
    /\ UNCHANGED <<config, fs, storage, cloud, bucket, cidr, tpu_node, size, request,
                   policy, logged>>

DeleteCall(prefix) == Call("delete_blobs", [prefix |-> prefix])

\* line 218: delete_blobs(storage, bucket.name, DATA_DIR) returns
DeleteBlobs ==
    /\ pc = "delete_blobs" /\ ~DeleteBlobsRaises(DATA_DIR, FALSE)
    /\ objects' = DeleteBlobsResult(objects, DATA_DIR, Len(ListBlobs(objects, DATA_DIR)))
    /\ calls' = Append(calls, DeleteCall(DATA_DIR))
    /\ stages' = Start("delete_blobs") \o <<<<"delete_blobs", "end">>>>
    /\ pc' = "end"
    /\ UNCHANGED <<config, fs, buckets, iam, cloud, locals, logged, raised>>

\* the guard of line 64 raises ValueError: nothing is listed or deleted
DeleteBlobsRefused ==
    /\ pc = "delete_blobs" /\ DeleteBlobsRaises(DATA_DIR, FALSE)
    /\ stages' = Start("delete_blobs")
    /\ Abort(<<"ValueError">>)
    /\ UNCHANGED <<config, calls, fs, storage, cloud, locals, logged>>

\* the listing raises (n = 0), or the deletion of blob number n + 1 does
DeleteBlobsFails ==
    /\ pc = "delete_blobs" /\ ~DeleteBlobsRaises(DATA_DIR, FALSE)
    /\ \E n \in 0..Len(ListBlobs(objects, DATA_DIR)) :
        objects' = DeleteBlobsResult(objects, DATA_DIR, n)
    /\ calls' = Append(calls, DeleteCall(DATA_DIR))
    /\ stages' = Start("delete_blobs")
    /\ \E e \in RemoteErrors : Abort(e)
    /\ UNCHANGED <<config, fs, buckets, iam, cloud, locals, logged>>

-----------------------------------------------------------------------------
(* The orchestrator: one run of the script.                                *)

Next ==
    \/ Import \/ ImportFails
    \/ PreprocessSkipped \/ Preprocess \/ PreprocessScriptFails
    \/ PreprocessExtractFails
    \/ BuildClients \/ BuildClientsFails
    \/ CreateBucket \/ CreateBucketFails
    \/ UploadDir \/ UploadDirFails
    \/ ReserveArgFails \/ ReserveSubmit \/ ReserveSubmitFails
    \/ ReservePoll \/ ReservePollFails \/ ReserveGet \/ ReserveGetFails
    \/ CreateTpusSubmit \/ CreateTpusSubmitFails
    \/ CreateTpusPoll \/ CreateTpusPollFails \/ CreateTpusGet \/ CreateTpusGetFails
    \/ GetIamPolicy \/ GetIamPolicyFails \/ SetIamPolicy \/ SetIamPolicyFails
    \/ Train \/ TrainFails
    \/ DeleteTpusSubmit \/ DeleteTpusSubmitFails
    \/ DeleteTpusPoll \/ DeleteTpusPollFails
    \/ ReleaseSubmit \/ ReleaseSubmitFails \/ ReleasePoll \/ ReleasePollFails
    \/ DownloadBlobs \/ DownloadBlobsFails \/ DownloadListFails
    \/ DeleteBlobs \/ DeleteBlobsRefused \/ DeleteBlobsFails

Spec == Init /\ [][Next]_vars

-----------------------------------------------------------------------------
(* Claims about one run of the orchestrator, checked under Spec.           *)

\* the API methods of the calls cs, in order
ApiSeq(cs) == [i \in 1..Len(cs) |-> cs[i].api]

\* some call in cs is to the method api
HasCall(cs, api) == \E i \in 1..Len(cs) : cs[i].api = api

\* the stage log ms holds the mark m
Marked(ms, m) == \E i \in 1..Len(ms) : ms[i] = m

\* this step issues a call to the method api
Issues(api) ==
    /\ Len(calls') > Len(calls)
    /\ \E i \in (Len(calls) + 1)..Len(calls') : calls'[i].api = api

\* the node deletion was submitted and its operation was polled after that
DeletionPolled(cs) ==
    \E i \in 1..Len(cs) : \E j \in (i + 1)..Len(cs) :
        /\ cs[i] = Call("nodes.delete", JOB_ID)
        /\ cs[j] = Call("operations.get", <<"delete">> \o JOB_ID)

\* C1: the request that releases the address range is submitted only after
\* the node deletion was submitted and its operation was polled to done: the
\* step that issues globalAddresses.delete starts where the last status
\* polled by delete_tpus is done, and no state has the release requested
\* without the deletion submitted and polled before it.
C1_ReleaseAfterDeletionDone ==
    [][Issues("globalAddresses.delete") =>
            /\ pc = "release_cidr"
            /\ status # Null /\ "done" \in DOMAIN status /\ status.done
            /\ DeletionPolled(calls)
            /\ Marked(stages, <<"delete_tpus", "end">>)]_vars

C1_Witness ==
    /\ pc = "release_poll"
    /\ calls[Len(calls)] = Call("globalAddresses.delete", JOB_ID)
    /\ DeletionPolled(calls)

\* the job-execution step failed in this run
JobFailed(ms) == Marked(ms, <<"train_mnist", "failed">>)

\* C2: if the job-execution step fails after provisioning and the access
\* grant succeeded, the failure is logged and not re-raised, the run goes on
\* to the teardown, and there the next calls are the node deletion and, once
\* that returned, the release of the address range.
C2_JobFailureLoggedTeardownFollows ==
    [][/\ (~JobFailed(stages) /\ JobFailed(stages')) =>
            /\ Marked(stages, <<"tpu_bucket_access", "end">>)
            /\ Len(logged') = Len(logged) + 1
            /\ raised' = <<>>
            /\ pc' = "delete_tpus"
       /\ (JobFailed(stages) /\ pc = "delete_tpus") =>
            /\ Issues("nodes.delete")
            /\ ENABLED DeleteTpusSubmit
       /\ (JobFailed(stages) /\ pc = "release_cidr") =>
            /\ Issues("globalAddresses.delete")
            /\ ENABLED ReleaseSubmit]_vars

C2_Witness ==
    /\ JobFailed(stages) /\ logged # <<>> /\ raised = <<>>
    /\ pc = "release_poll"
    /\ HasCall(calls, "nodes.delete")
    /\ calls[Len(calls)] = Call("globalAddresses.delete", JOB_ID)

\* the stages of main after the preprocessing, in the order of lines 155-218
StageOrder ==
    <<"create_bucket", "upload_dir", "reserve_cidr", "create_tpus",
      "tpu_bucket_access", "train_mnist", "delete_tpus", "release_cidr",
      "download_blobs", "delete_blobs">>

\* each stage of order started and ended, one after the other
StartEndMarks(order) ==
    [i \in 1..(2 * Len(order)) |->
        <<order[(i + 1) \div 2], IF i % 2 = 1 THEN "start" ELSE "end">>]

\* the stage log of a complete run without a failure
ExpectedStages ==
    StartEndMarks(IF PREPROCESS # 0 THEN <<"preprocess">> \o StageOrder ELSE StageOrder)

\* the calls of a complete run without a failure, by API method; the turns
\* of one poll loop count as one call
ExpectedApis ==
    (IF PREPROCESS # 0 THEN <<"execute">> ELSE <<>>)
    \o <<"discovery.build", "discovery.build", "client.create_bucket",
         "blob.upload_from_filename",
         "globalAddresses.insert", "globalOperations.get", "globalAddresses.get",
         "nodes.create", "operations.get", "nodes.get",
         "bucket.get_iam_policy", "bucket.set_iam_policy",
         "execute",
         "nodes.delete", "operations.get",
         "globalAddresses.delete", "globalOperations.get",
         "download_blobs", "delete_blobs">>

\* a is an initial part of b
IsPrefix(a, b) == Len(a) <= Len(b) /\ SubSeq(b, 1, Len(a)) = a

\* C3: while no call has failed, the stages run so far are an initial part of
\* preprocess (only if the toggle is on), create container, upload, reserve
\* address range, create node, grant access, run job, delete node, release
\* address range, download results, delete data prefix, each started once and
\* ended before the next starts; a run that ends without a failure has made
\* exactly these stages and exactly their calls.
C3_StagesInOrderOnce ==
    /\ (~JobFailed(stages) /\ pc \notin {"import", "crashed"}) =>
            /\ IsPrefix(stages, ExpectedStages)
            /\ IsPrefix(ApiSeq(calls), ExpectedApis)
    /\ (pc = "end" /\ ~JobFailed(stages)) =>
            /\ stages = ExpectedStages
            /\ ApiSeq(calls) = ExpectedApis
            /\ raised = <<>>

C3_Witness ==
    /\ pc = "end" /\ ~JobFailed(stages) /\ PREPROCESS # 0
    /\ Len(stages) = 22

\* an explicit address was supplied in the environment
AddressSupplied == "TPU_ADDRESS" \in DOMAIN environ /\ environ["TPU_ADDRESS"] # <<>>

\* C7: the reservation request carries an address field if and only if an
\* explicit address was supplied; with TPU_ADDRESS unset the request has no
\* address field.
C7_AddressFieldIffSupplied ==
    \A i \in 1..Len(calls) :
        calls[i].api = "globalAddresses.insert" =>
            ("address" \in DOMAIN calls[i].arg <=> AddressSupplied)

\* the reservation was requested with TPU_ADDRESS unset
C7_Witness ==
    /\ "TPU_ADDRESS" \notin DOMAIN environ
    /\ HasCall(calls, "globalAddresses.insert")

\* C8: no object whose key lies under the output prefix is ever deleted: the
\* results objects in the container when the job has ended are still there
\* after every later step of the run.
C8_ResultsRetained ==
    [][(Marked(stages, <<"train_mnist", "end">>) \/ JobFailed(stages)) =>
            \A k \in DOMAIN objects :
                StartsWith(k, OUTPUT_DIR) => k \in DOMAIN objects']_vars

\* the run ended with results downloaded and none left in the container
C8_Witness ==
    /\ pc = "end" /\ HasCall(calls, "delete_blobs")
    /\ \E p \in DOMAIN localFiles : StartsWith(p, ResultsDir)
    /\ ~\E k \in DOMAIN objects : StartsWith(k, OUTPUT_DIR)

\* C9: reserve_cidr leaves its poll loop for the return only on a polled
\* status that is DONE and has no error field; on a polled status with an
\* error field, DONE or not, it fails with an error that carries the error
\* payload and no reservation is returned; a reservation is returned only
\* after such a DONE status was observed.
C9_ReserveReturnsOnlyOnCleanDone ==
    [][/\ (pc = "reserve_poll" /\ pc' = "reserve_get") =>
            /\ status'.status = "DONE"
            /\ "error" \notin DOMAIN status'
       /\ (pc = "reserve_poll" /\ status' # Null /\ "error" \in DOMAIN status') =>
            /\ pc' = "aborted"
            /\ raised' = ReserveWrap(status'.error)
            /\ cidr' = Null
       /\ (cidr' # cidr) =>
            /\ pc = "reserve_get"
            /\ status # Null /\ status.status = "DONE" /\ "error" \notin DOMAIN status
            /\ HasCall(calls, "globalAddresses.insert")]_vars

\* a status that is DONE and has an error field was polled
C9_Witness ==
    /\ pc = "aborted" /\ cidr = Null
    /\ status # Null /\ "status" \in DOMAIN status /\ "error" \in DOMAIN status
    /\ status.status = "DONE"
    /\ raised = ReserveWrap(status.error)
    /\ ~Marked(stages, <<"reserve_cidr", "end">>)

\* the calls that delete or release what the run created
CleanupApis == {"nodes.delete", "globalAddresses.delete", "delete_blobs", "delete_bucket"}

\* the stage that was running: the one of the last start mark
RunningStage(ms) == IF ms = <<>> THEN "" ELSE ms[Len(ms)][1]

\* C10: a failure in a stage other than the job execution ends the run with
\* the exception at that point: no step follows (no later call, no second
\* try), the failing stage is not the job execution and never ends, and a
\* failure before the teardown leaves no delete or release call behind.
C10_FailureIsFatal ==
    [][/\ raised = <<>>
       /\ pc \notin {"aborted", "crashed"}
       /\ (raised' # <<>>) =>
            /\ pc' \in {"aborted", "crashed"}
            /\ pc # "train_mnist"
            /\ ~Marked(stages', <<RunningStage(stages'), "end">>)
               \/ pc \in {"import", "build_clients"}
            /\ (RunningStage(stages') \notin {"delete_tpus", "release_cidr",
                                              "download_blobs", "delete_blobs"}) =>
                  \A i \in 1..Len(calls') : calls'[i].api \notin CleanupApis]_vars

\* the access grant failed: the node and the address range exist, and no
\* call deleted or released them
C10_Witness ==
    /\ pc = "aborted" /\ raised # <<>>
    /\ RunningStage(stages) = "tpu_bucket_access"
    /\ JOB_ID \in DOMAIN nodes /\ JOB_ID \in DOMAIN addresses
    /\ \A i \in 1..Len(calls) : calls[i].api \notin CleanupApis

\* the message main, or the library function, gives the exception it raises
\* in place of the one a stage failed with: lines 144, 161, 167, 181 of
\* tpu_automate_training.py, lines 123 and 228 of tpu_manager.py
StageMessages ==
    [preprocess |-> "Preprocessing failed. Aborting training.",
     create_bucket |-> "Could not create the bucket for this training job.",
     upload_dir |-> "Could not upload training data to the bucket.",
     reserve_cidr |-> "Could not reserve a CIDR for this TPU node.",
     create_tpus |-> "Could not create a new TPU device.",
     download_blobs |-> "Cannot download the contents of bucket"]

\* C11: every failure that aborts the run reaches the caller as an exception
\* with the message of the stage that failed, with the original exception
\* chained to it; this holds for every stage.
C11_EveryFailureWrapped ==
    (pc = "aborted" /\ stages # <<>> /\ stages[Len(stages)][2] = "start") =>
        /\ Len(raised) >= 2
        /\ RunningStage(stages) \in DOMAIN StageMessages
        /\ raised[1] = StageMessages[RunningStage(stages)]

\* the read of the access policy failed and its exception left main as it was
C11_Witness ==
    /\ pc = "aborted"
    /\ RunningStage(stages) = "tpu_bucket_access"
    /\ raised \in RemoteErrors


\* how many calls in cs are to the method api
CountCalls(cs, api) == Cardinality({i \in 1..Len(cs) : cs[i].api = api})

\* the calls in cs to the method api
CallsTo(cs, api) == {cs[i] : i \in {j \in 1..Len(cs) : cs[j].api = api}}

\* the run is over: main returned or an exception left it
RunOver == pc \in {"end", "aborted"}

ResourceName(c) ==
    IF c.api \in {"client.create_bucket", "globalAddresses.insert"} THEN c.arg.name
    ELSE IF c.api = "nodes.create" THEN c.arg.nodeId
    ELSE c.arg

NamingApis ==
    {"client.create_bucket", "globalAddresses.insert", "globalAddresses.delete",
     "nodes.create", "nodes.delete"}

\* every resource named in a call, and every resource that exists, carries
\* the job identifier
NamesAreJobId ==
    /\ \A i \in 1..Len(calls) :
          calls[i].api \in NamingApis => ResourceName(calls[i]) = JOB_ID
    /\ buckets \subseteq {JOB_ID}
    /\ DOMAIN addresses \subseteq {JOB_ID}
    /\ DOMAIN nodes \subseteq {JOB_ID}
    /\ bucket \in {Null, JOB_ID}

\* C13: the job identifier never changes during a run, and the container
\* created, the address reservation created and released and the compute
\* node created and deleted all carry it as their name.
C13_OneJobIdNamesEverything ==
    [][JOB_ID' = JOB_ID /\ NamesAreJobId /\ NamesAreJobId']_vars

C13_Witness ==
    /\ pc = "end" /\ "JOB_ID" \notin DOMAIN environ
    /\ \A api \in NamingApis : HasCall(calls, api)
    /\ NamesAreJobId


\* C15: create_tpus raises the provisioning error, without polling, when the
\* creation request is rejected; otherwise it leaves its poll loop exactly
\* when the operation's done flag is set, whatever the error field says, and
\* then fetches the node description and returns it.
C15_CreateLoopExitsOnDoneAlone ==
    [][/\ pc = "create_tpus" /\ pc' = "aborted" =>
            /\ raised'[1] = "Could not create a new TPU device."
            /\ Len(raised') >= 2
            /\ calls' = Append(calls, Call("nodes.create",
                                           [nodeId |-> JOB_ID, body |-> request']))
            /\ ~HasCall(calls', "operations.get")
       /\ pc = "create_poll" /\ pc' # "aborted" =>
            /\ pc' = "create_get" <=> status'.done
            /\ pc' = "create_poll" <=> ~status'.done
       /\ pc = "create_get" =>
            /\ calls' = Append(calls, Call("nodes.get", JOB_ID))
            /\ pc' # "aborted" =>
                  /\ pc' = "tpu_bucket_access" /\ raised' = <<>>
                  /\ tpu_node' = nodes[JOB_ID]
                  /\ Marked(stages', <<"create_tpus", "end">>)]_vars

\* the operation is done and failed, and create_tpus has left its loop
C15_Witness ==
    /\ pc = "create_get" /\ status.done /\ "error" \in DOMAIN status
    /\ JOB_ID \in DOMAIN nodes
    /\ ENABLED CreateTpusGet


\* the members a policy gives a role
MembersOf(pol, role) == IF role \in DOMAIN pol THEN pol[role] ELSE {}

\* C16: the CIDR block of the node creation request is address/prefixLength
\* of the reservation reserve_cidr returned in this run, and the principal
\* of the access grant is the service account of the node description that
\* create_tpus fetched after the operation completed.
C16_RequestsCarryReturnedValues ==
    [][/\ cidr' # cidr =>
            pc = "reserve_get" /\ cidr' = addresses[JOB_ID]
       /\ tpu_node' # tpu_node =>
            pc = "create_get" /\ status.done /\ tpu_node' = nodes[JOB_ID]
       /\ pc = "create_tpus" =>
            /\ HasCall(calls, "globalAddresses.get")
            /\ calls'[Len(calls')].api = "nodes.create"
            /\ calls'[Len(calls')].arg.body.cidrBlock
                  = cidr.address \o <<"/", cidr.prefixLength>>
       /\ pc = "set_iam_policy" =>
            LET written == calls'[Len(calls')].arg
                member  == <<"serviceAccount:">> \o tpu_node.serviceAccount
            IN  /\ calls'[Len(calls')].api = "bucket.set_iam_policy"
                /\ HasCall(calls, "nodes.get")
                /\ member \in MembersOf(written, GrantedRole)
                /\ MembersOf(written, GrantedRole)
                      \ MembersOf(policy, GrantedRole) \subseteq {member}
                /\ \A r \in DOMAIN written \ {GrantedRole} :
                      MembersOf(written, r) = MembersOf(policy, r)]_vars

C16_Witness ==
    /\ pc = "train_mnist"
    /\ tpu_node.serviceAccount = <<"sa-2@tpu">>
    /\ <<"serviceAccount:", "sa-2@tpu">> \in MembersOf(iam, GrantedRole)
    /\ \E i \in 1..Len(calls) :
          /\ calls[i].api = "nodes.create"
          /\ calls[i].arg.body.cidrBlock = cidr.address \o <<"/", cidr.prefixLength>>


\* the statements of main from the first status request on (reserve_cidr
\* line 163 to the end of main)
StepAfterReserveRequest ==
    \/ ReservePollFails \/ ReservePoll \/ ReserveGetFails \/ ReserveGet
    \/ CreateTpusSubmitFails \/ CreateTpusSubmit
    \/ CreateTpusPollFails \/ CreateTpusPoll \/ CreateTpusGetFails \/ CreateTpusGet
    \/ GetIamPolicyFails \/ GetIamPolicy \/ SetIamPolicyFails \/ SetIamPolicy
    \/ Train \/ TrainFails
    \/ DeleteTpusSubmitFails \/ DeleteTpusSubmit
    \/ DeleteTpusPollFails \/ DeleteTpusPoll
    \/ ReleaseSubmitFails \/ ReleaseSubmit \/ ReleasePollFails \/ ReleasePoll
    \/ DownloadListFails \/ DownloadBlobs \/ DownloadBlobsFails
    \/ DeleteBlobsRefused \/ DeleteBlobs \/ DeleteBlobsFails

\* The run of main in which, once the first operation was submitted, every
\* statement the program can execute is executed in the end: the process is
\* sequential, nothing suspends it, and a call returns or raises. With
\* MaxPolls, every operation reports a terminal state after finitely many
\* turns of its loop, or its status request raises.
FairSpec == Spec /\ WF_vars(StepAfterReserveRequest)

PollLoops == {"reserve_poll", "create_poll", "delete_poll", "release_poll"}

\* the status st is terminal for the loop at p
TerminalFor(p, st) ==
    IF p \in {"create_poll", "delete_poll"} THEN st.done ELSE st.status = "DONE"

PollApis == {"globalOperations.get", "operations.get"}

RunEnded == pc \in {"end", "aborted", "crashed"}

\* a step taken inside a poll loop raises, or stays in the loop on a status
\* that is not terminal and issues nothing but the status request, or leaves
\* the loop on a terminal status
PollTurn ==
    pc \in PollLoops =>
        \/ pc' = "aborted" /\ raised' # <<>>
        \/ /\ pc' = pc /\ ~TerminalFor(pc, status')
           /\ polls' = polls + 1
           /\ \/ calls' = calls
              \/ /\ Len(calls') = Len(calls) + 1
                 /\ SubSeq(calls', 1, Len(calls)) = calls
                 /\ calls'[Len(calls')].api \in PollApis
        \/ pc' \notin {pc, "aborted"} /\ TerminalFor(pc, status')

\* C18: when every submitted operation reports a terminal state in the end,
\* a run that submitted its first operation ends, and it ends without an
\* exception only at its last statement; a poll loop is left for the next stage only on a terminal
\* status, and a turn that sees another status stays in the loop and issues
\* nothing but the status request (no timeout, no cancellation).
C18_EndsWhenOperationsEnd ==
    /\ (pc = "reserve_poll") ~> RunEnded
    /\ [](RunEnded /\ raised = <<>> => pc = "end")
    /\ [][PollTurn]_vars

\* the deletion has not reported a terminal state after MaxPolls turns: the
\* run is still in the loop and has not asked for the release
C18_Witness ==
    /\ pc = "delete_poll" /\ polls = MaxPolls /\ ~TerminalFor(pc, status)
    /\ ~HasCall(calls, "globalAddresses.delete")
    /\ raised = <<>>


\* the stage log ms with the failure of the job read as its end
FailureAsEnd(ms) ==
    [i \in 1..Len(ms) |->
        IF ms[i] = <<"train_mnist", "failed">> THEN <<"train_mnist", "end">> ELSE ms[i]]

\* C19: a failure of the job does not show in the outcome of the run. A run
\* whose job failed and whose other calls succeeded ends without an
\* exception, as a run whose job succeeded does, after the same stages and
\* the same calls (node deletion, release of the range, download of the
\* results, deletion of the data prefix); only the log holds the failure.
C19_JobFailureInvisible ==
    /\ pc = "end" => raised = <<>>
    /\ (pc = "end" /\ JobFailed(stages)) =>
            /\ FailureAsEnd(stages) = ExpectedStages
            /\ ApiSeq(calls) = ExpectedApis
            /\ Len(logged) = 1
    /\ JobFailed(stages) =>
            pc \in {"delete_tpus", "delete_poll", "release_cidr", "release_poll",
                    "download_blobs", "delete_blobs", "end", "aborted"}

C19_Witness ==
    /\ pc = "end" /\ JobFailed(stages) /\ raised = <<>>
    /\ logged = <<<<"CalledProcessError">>>>
    /\ SubSeq(ApiSeq(calls), Len(calls) - 5, Len(calls))
          = <<"nodes.delete", "operations.get", "globalAddresses.delete",
              "globalOperations.get", "download_blobs", "delete_blobs">>

-----------------------------------------------------------------------------
(* The sizing of the address range alone: line 178, for many core counts   *)
(* and ratios.                                                             *)

\* long multiplication from the digit st[1] down, with the carry st[2] and
\* the product digits st[3] so far
RECURSIVE TimesFrom(_, _, _)
TimesFrom(d, m, st) ==
    IF st[1] = 0 THEN Norm(<<st[2] \div 10, st[2] % 10>> \o st[3])
    ELSE TimesFrom(d, m, <<st[1] - 1, (d[st[1]] * m + st[2]) \div 10,
                           <<(d[st[1]] * m + st[2]) % 10>> \o st[3]>>)

\* d * m for a small m
BigTimes(d, m) == TimesFrom(d, m, <<Len(d), 0, <<>>>>)

RECURSIVE PredFrom(_, _)
PredFrom(d, i) ==
    IF d[i] > 0 THEN [d EXCEPT ![i] = d[i] - 1]
    ELSE PredFrom([d EXCEPT ![i] = 9], i - 1)

\* d - 1 for a positive d
BigPred(d) == Norm(PredFrom(d, Len(d)))

\* 2^k, six doublings at a time
RECURSIVE Pow2(_)
Pow2(k) ==
    IF k < 6 THEN <<<<1>>, <<2>>, <<4>>, <<8>>, <<1, 6>>, <<3, 2>>>>[k + 1]
    ELSE BigTimes(Pow2(k - 6), 64)

\* the core counts drawn: 2^k, 2^k - 1 and 3 * 2^k
CoreInputs ==
    {Pow2(k) : k \in 0..MaxCoreExp}
    \cup {BigPred(Pow2(k)) : k \in 1..MaxCoreExp}
    \cup {BigTimes(Pow2(k), 3) : k \in 0..MaxCoreExp}

\* the accelerator type '<family>-<coreCount>'
TypeName(family, d) == family \o <<"-">> \o [i \in 1..Len(d) |-> DigitChars[d[i] + 1]]

Families == {<<"v", "2">>}

SizerTypes == {TypeName(f, d) : f \in Families, d \in CoreInputs} \cup Families

SizerInit ==
    /\ \E t \in SizerTypes : environ = ("TPU_TYPE" :> t)
    /\ uid \in Uuids
    /\ CORE_RATIO \in 1..MaxRatio
    /\ pc = "size"
    /\ localFiles = Null /\ localDirs = {}
    /\ Idle

\* line 178 is evaluated
SizeArgComputed ==
    /\ pc = "size" /\ ~SizeArgRaises
    /\ size' = SizeArg
    /\ pc' = "sized"
    /\ UNCHANGED <<config, calls, stages, fs, storage, cloud, bucket, cidr, tpu_node,
                   request, status, polls, policy, logged, raised>>

SizeArgFails ==
    /\ pc = "size" /\ SizeArgRaises
    /\ Abort(ReserveWrap(<<"ValueError or IndexError">>))
    /\ UNCHANGED <<config, calls, stages, fs, storage, cloud, locals, logged>>

SizerNext == SizeArgComputed \/ SizeArgFails

SizerSpec == SizerInit /\ [][SizerNext]_vars

-----------------------------------------------------------------------------
(* Claims about the sizing, checked under SizerSpec.                       *)

\* the core count d is the one in the accelerator type of this run
IsCoreCount(d) == \E f \in Families : TPU_TYPE = TypeName(f, d)

\* d + m for a small m
BigPlus(d, m) == TimesFrom(d, 1, <<Len(d), m, <<>>>>)

\* a <= b
BigLeq(a, b) == ~BigLess(b, a)

\* q is the floor of c / r: q * r <= c < q * r + r
IsFloorDiv(q, c, r) ==
    BigLeq(BigTimes(q, r), c) /\ BigLess(c, BigPlus(BigTimes(q, r), r))

\* m is the larger of 8 and q
IsMaxWith8(m, q) == m \in {<<8>>, q} /\ BigLeq(<<8>>, m) /\ BigLeq(q, m)

\* k is the number of bits of the positive m: 2^(k-1) <= m < 2^k
IsBitLength(k, m) == k >= 1 /\ BigLeq(Pow2(k - 1), m) /\ BigLess(m, Pow2(k))

\* p = 33 - bitLength(max(8, d // r)), stated without computing it
IsPrefixLengthOf(p, d, r) ==
    LET q == FloorDiv(d, r)
        m == BigMax(<<8>>, q)
    IN  IsFloorDiv(q, d, r) /\ IsMaxWith8(m, q) /\ IsBitLength(33 - p, m)

QuotientFits32(d, r) == BigLess(d, BigTimes(Pow2(32), r))

\* C6 as stated: for all positive cores and R the prefix length computed
\* lies in [1,32].
C6_PrefixAlwaysInRange == pc = "sized" => size \in 1..32

\* C6 amended: the prefix length lies in [1,32] for all positive cores and R
\* with cores // R < 2^32.
C6_PrefixInRangeBelow2to32 ==
    pc = "sized" =>
        \A d \in CoreInputs :
            IsCoreCount(d) /\ QuotientFits32(d, CORE_RATIO) => size \in 1..32

C6_Witness ==
    /\ pc = "sized" /\ size = 1
    /\ \E d \in CoreInputs : IsCoreCount(d) /\ QuotientFits32(d, CORE_RATIO)

-----------------------------------------------------------------------------
(* The library called directly: one call of a function of tpu_manager.py   *)
(* on a container with any contents.                                       *)

LibBucket == <<"bkt">>

\* the keys a container may hold
LibKeys ==
    {<<"d", "a", "t", "a", "/", "a">>, <<"d", "a", "t", "a", "/", "s", "/", "b">>,
     <<"o", "u", "t", "p", "u", "t", "/", "m">>, <<"x">>,
     <<"d", "a", "t", "a", "/">>, <<"x", "/", "y">>}

\* the prefixes a caller may pass
LibPrefixes ==
    {<<>>, <<"d">>, <<"d", "a", "t", "a", "/">>, <<"o", "u", "t", "p", "u", "t", "/">>,
     <<"z">>}

\* the local_dir a caller may pass
LibLocalDirs == {<<"r">>, <<>>}

\* the local files and directories a call may find
LibLocals ==
    {[files |-> Null, dirs |-> {}],
     [files |-> (<<"r", "/", "x">> :> <<"o", "l", "d">>), dirs |-> {<<"r">>}],
     [files |-> (<<"r", "/", "d", "a", "t", "a">> :> <<"f">>), dirs |-> {<<"r">>}],
     [files |-> Null, dirs |-> {<<"r">>, <<"r", "/", "x">>}]}

LibInit ==
    /\ environ = Null /\ uid \in Uuids /\ CORE_RATIO = DefaultCoreRatio
    /\ pc = "idle"
    /\ \E l \in LibLocals : localFiles = l.files /\ localDirs = l.dirs
    /\ calls = <<>> /\ stages = <<>>
    /\ buckets = {LibBucket}
    /\ \E K \in SUBSET LibKeys : objects = [k \in K |-> <<"v">> \o k]
    /\ iam = Null /\ addresses = Null /\ nodes = Null
    /\ bucket = Null /\ cidr = Null /\ tpu_node = Null /\ size = 0
    /\ request = Null /\ status = Null /\ polls = 0 /\ policy = Null
    /\ logged = <<>> /\ raised = <<>>

\* the calls delete_blobs makes when it deletes the first n listed blobs
DeleteBlobsCalls(objs, prefix, n) ==
    <<Call("client.list_blobs", prefix)>>
    \o [i \in 1..n |-> Call("blob.delete", ListBlobs(objs, prefix)[i])]

\* delete_blobs(storage, bucket_name, prefix, delete_all) returns
LibDeleteBlobs ==
    /\ pc = "idle"
    /\ \E prefix \in LibPrefixes : \E delete_all \in BOOLEAN :
        LET n == Len(ListBlobs(objects, prefix))
        IN  /\ ~DeleteBlobsRaises(prefix, delete_all)
            /\ request' = [fn |-> "delete_blobs", prefix |-> prefix,
                           delete_all |-> delete_all]
            /\ calls' = calls \o DeleteBlobsCalls(objects, prefix, n)
            /\ objects' = DeleteBlobsResult(objects, prefix, n)
    /\ pc' = "returned"
    /\ UNCHANGED <<config, stages, fs, buckets, iam, cloud, bucket, cidr, tpu_node,
                   size, status, polls, policy, logged, raised>>

\* the guard of line 64 raises ValueError
LibDeleteBlobsRefused ==
    /\ pc = "idle"
    /\ \E prefix \in LibPrefixes : \E delete_all \in BOOLEAN :
        /\ DeleteBlobsRaises(prefix, delete_all)
        /\ request' = [fn |-> "delete_blobs", prefix |-> prefix,
                       delete_all |-> delete_all]
    /\ pc' = "raised" /\ raised' = <<"ValueError">>
    /\ UNCHANGED <<config, calls, stages, fs, storage, cloud, bucket, cidr, tpu_node,
                   size, status, polls, policy, logged>>

\* the listing raises (n = 0 and nothing is deleted), or blob.delete() raises
\* after n blobs were deleted
LibDeleteBlobsFails ==
    /\ pc = "idle"
    /\ \E prefix \in LibPrefixes : \E delete_all \in BOOLEAN :
        \E n \in 0..Len(ListBlobs(objects, prefix)) :
            /\ ~DeleteBlobsRaises(prefix, delete_all)
            /\ request' = [fn |-> "delete_blobs", prefix |-> prefix,
                           delete_all |-> delete_all]
            /\ calls' = calls \o DeleteBlobsCalls(objects, prefix, n)
            /\ objects' = DeleteBlobsResult(objects, prefix, n)
    /\ pc' = "raised"
    /\ \E e \in RemoteErrors : raised' = e
    /\ UNCHANGED <<config, stages, fs, buckets, iam, cloud, bucket, cidr, tpu_node,
                   size, status, polls, policy, logged>>

\* delete_bucket(storage, bucket_name), lines 48-54: every object is deleted
\* through delete_blobs(..., '', delete_all=True), then the bucket
LibDeleteBucket ==
    /\ pc = "idle"
    /\ ~DeleteBlobsRaises(<<>>, TRUE)
    /\ LET n == Len(ListBlobs(objects, <<>>))
       IN  /\ calls' = (calls \o <<Call("client.get_bucket", LibBucket)>>
                          \o DeleteBlobsCalls(objects, <<>>, n))
                          \o <<Call("bucket.delete", LibBucket)>>
           /\ objects' = DeleteBlobsResult(objects, <<>>, n)
    /\ request' = [fn |-> "delete_bucket"]
    /\ buckets' = buckets \ {LibBucket}
    /\ pc' = "returned"
    /\ UNCHANGED <<config, stages, fs, iam, cloud, bucket, cidr, tpu_node, size,
                   status, polls, policy, logged, raised>>

\* download_blobs(storage, bucket_name, prefix, local_dir), lines 105-130,
\* where the download of blob number failAt (if any) fails the way `net`
\* says: the call returns (pc' = done) or raises
LibDownload(prefix, local_dir, failAt, net, done) ==
    LET r == DownloadBlobsResult(localFiles, localDirs, objects, prefix, local_dir,
                                 failAt, net)
    IN  /\ request' = [fn |-> "download_blobs", prefix |-> prefix,
                       local_dir |-> local_dir]
        /\ status' = [failAt |-> failAt]
        /\ calls' = Append(calls, Call("download_blobs",
                                       [prefix |-> prefix, local_dir |-> local_dir]))
        /\ localFiles' = r.files /\ localDirs' = r.dirs
        /\ raised' = r.exc
        /\ pc' = IF r.exc = <<>> THEN done ELSE "raised"
        /\ UNCHANGED <<config, stages, storage, cloud, bucket, cidr, tpu_node, size,
                       polls, policy, logged>>

\* a first call of download_blobs
LibDownloadBlobs ==
    /\ pc = "idle"
    /\ \E prefix \in LibPrefixes : \E local_dir \in LibLocalDirs :
        \E failAt \in 0..Len(ListBlobs(objects, prefix)) : \E net \in NetOutcomes :
            LibDownload(prefix, local_dir, failAt, net, "downloaded")

\* a second call of download_blobs with the arguments of the first
LibDownloadBlobsAgain ==
    /\ pc = "downloaded"
    /\ \E failAt \in 0..Len(ListBlobs(objects, request.prefix)) : \E net \in NetOutcomes :
            LibDownload(request.prefix, request.local_dir, failAt, net, "returned")

LibNext ==
    \/ LibDeleteBlobs \/ LibDeleteBlobsRefused \/ LibDeleteBlobsFails
    \/ LibDeleteBucket
    \/ LibDownloadBlobs \/ LibDownloadBlobsAgain

LibSpec == LibInit /\ [][LibNext]_vars

\* the step is a call of delete_blobs with an empty prefix
EmptyPrefixCall(delete_all) ==
    /\ pc = "idle" /\ pc' # "idle"
    /\ request'.fn = "delete_blobs"
    /\ request'.prefix = <<>> /\ request'.delete_all = delete_all

\* C4: delete_blobs with an empty prefix and delete_all=False always fails
\* with an invalid-argument error before listing or deleting anything, so
\* the objects are unchanged; with an empty prefix and delete_all=True it
\* deletes every object of the container.
C4_EmptyPrefixGuard ==
    [][/\ EmptyPrefixCall(FALSE) =>
            raised' = <<"ValueError">> /\ calls' = calls /\ objects' = objects
       /\ EmptyPrefixCall(TRUE) /\ pc' = "returned" => DOMAIN objects' = {}]_vars

C4_Witness ==
    /\ pc = "raised" /\ raised = <<"ValueError">>
    /\ request.prefix = <<>> /\ request.delete_all = FALSE
    /\ DOMAIN objects = LibKeys /\ calls = <<>>


\* the step is a second call of download_blobs, none of whose remote
\* requests fails
SecondDownload == pc = "downloaded" /\ pc' # "downloaded" /\ status'.failAt = 0

\* C14: download_blobs is idempotent: after a first call that succeeded, a
\* second call with the same arguments on the same container contents
\* succeeds and leaves the local files and directories as the first left them.
C14_DownloadIdempotent ==
    [][SecondDownload =>
          /\ pc' = "returned" /\ raised' = <<>>
          /\ localFiles' = localFiles /\ localDirs' = localDirs]_vars

C14_Witness ==
    /\ pc = "returned" /\ request.fn = "download_blobs"
    /\ Len(calls) = 2 /\ status.failAt = 0
    /\ <<"r", "/", "x">> \in DOMAIN localFiles
    /\ localFiles[<<"r", "/", "x">>] = <<"v", "x">>
    /\ <<"r", "/", "d", "a", "t", "a">> \in localDirs

-----------------------------------------------------------------------------
(* tpu_bucket_access called while another actor changes the access policy  *)
(* of the same container.                                                  *)

\* the changes of policy the other actor makes during one call
MaxChanges == 2

\* the bindings the other actor grants and revokes
OtherBindings ==
    {<<GrantedRole, <<"serviceAccount:", "sa-1@tpu">>>>,
     <<GrantedRole, <<"user:", "ann">>>>,
     <<"roles/storage.objectViewer", <<"allUsers">>>>}

\* the policy that holds the bindings B
PolicyOf(B) ==
    [r \in {b[1] : b \in B} |-> {b[2] : b \in {c \in B : c[1] = r}}]

GrantInit ==
    /\ environ = Null /\ uid \in Uuids /\ CORE_RATIO = DefaultCoreRatio
    /\ pc = "tpu_bucket_access"
    /\ localFiles = Null /\ localDirs = {}
    /\ calls = <<>> /\ stages = <<>>
    /\ buckets = {LibBucket} /\ objects = Null
    /\ \E B \in SUBSET OtherBindings : iam = PolicyOf(B)
    /\ addresses = Null /\ nodes = Null
    /\ bucket = LibBucket /\ cidr = Null
    /\ \E sa \in ServiceAccounts : tpu_node = [serviceAccount |-> sa]
    /\ size = 0 /\ request = Null /\ status = Null /\ polls = 0 /\ policy = Null
    /\ logged = <<>> /\ raised = <<>>

\* another actor writes a policy of its own while the call is under way
OtherActorSetsPolicy ==
    /\ pc \in {"tpu_bucket_access", "set_iam_policy"}
    /\ CountCalls(calls, "other.set_iam_policy") < MaxChanges
    /\ \E B \in SUBSET OtherBindings :
        /\ PolicyOf(B) # iam
        /\ iam' = PolicyOf(B)
        /\ calls' = Append(calls, Call("other.set_iam_policy", iam'))
    /\ UNCHANGED <<config, pc, stages, fs, buckets, objects, cloud, locals, logged,
                   raised>>

GrantNext ==
    \/ GetIamPolicy \/ GetIamPolicyFails
    \/ SetIamPolicy \/ SetIamPolicyFails
    \/ OtherActorSetsPolicy

GrantSpec == GrantInit /\ [][GrantNext]_vars

\* the write of tpu_bucket_access is accepted
PolicyWritten == pc = "set_iam_policy" /\ pc' = "train_mnist"

\* C17: tpu_bucket_access reads the policy and writes it back in two steps.
\* The write puts in place the policy read earlier plus the new binding,
\* whatever the container's policy is by then, so a change another actor made
\* in between is lost; when nothing changed in between, the result is the
\* prior policy plus the binding of the role to the principal.
C17_WriteReplacesWithPolicyRead ==
    [][PolicyWritten =>
          LET member == <<"serviceAccount:">> \o tpu_node.serviceAccount
              merged == Put(policy, GrantedRole,
                            MembersOf(policy, GrantedRole) \cup {member})
          IN  /\ iam' = merged
              /\ iam = policy =>
                    /\ MembersOf(iam', GrantedRole)
                          = MembersOf(iam, GrantedRole) \cup {member}
                    /\ \A r \in (DOMAIN iam \cup DOMAIN iam') \ {GrantedRole} :
                          MembersOf(iam', r) = MembersOf(iam, r)]_vars

\* the other actor granted a binding after the read, and the policy written
\* does not hold it
C17_Witness ==
    /\ pc = "train_mnist" /\ Len(calls) = 3
    /\ calls[1].api = "bucket.get_iam_policy"
    /\ calls[2].api = "other.set_iam_policy"
    /\ calls[3].api = "bucket.set_iam_policy"
    /\ <<"user:", "ann">> \in MembersOf(calls[2].arg, GrantedRole)
    /\ <<"user:", "ann">> \notin MembersOf(iam, GrantedRole)
    /\ iam = calls[3].arg

=============================================================================
